---------------------------- MODULE Spec2Model ----------------------------
(***************************************************************************)
(* A model of the pytest-timeout plugin (src/pytest_timeout.py): the      *)
(* resolution of a test item's timeout settings (get_params and its       *)
(* helpers), and the arming, expiry and disarming of the timeout around   *)
(* each test item, by SIGALRM or by a threading.Timer.                    *)
(*                                                                         *)
(* The module is Python 2 code (its own comment "None < 0" at line 158    *)
(* relies on the ordering of None below every number), and the model      *)
(* follows those semantics.                                               *)
(***************************************************************************)
EXTENDS Integers, Sequences, FiniteSets, TLC

VARIABLES
    HAVE_SIGALRM,    \* hasattr(signal, 'SIGALRM') on this platform
    config,          \* command line, environment and ini-file values
    index,           \* number of the test item being run (1..MaxItems)
    item,            \* the test item being run
    pc,              \* position of the main (scheduling) thread
    params,          \* what get_params returned for the current item
    cancel,          \* TimeoutPlugin.cancel
    current_timer,   \* TimeoutPlugin._current_timer
    sigalrm_handler, \* the installed SIGALRM handler
    alarm,           \* seconds of the pending signal.alarm(), 0 when none
    timers,          \* the threading.Timer threads, by the item that made them
    others,          \* idents of the live threads other than main and timers
    trace,           \* what the expiry handlers did during this item, in order
    report,          \* outcome of the current item, by phase
    process,         \* whether the process runs, and how it ended
    session,         \* the session deadline: its state, clock and results
    debugger         \* a debugger's trace hook is installed (sys.gettrace())

vars == << HAVE_SIGALRM, config, index, item, pc, params, cancel,
           current_timer, sigalrm_handler, alarm, timers, others, trace,
           report, process, session, debugger >>

---------------------------------------------------------------------------
(* Bounds of the model.                                                    *)

\* number of test items in a session
MaxItems == 2
\* idents of threads a test body may start are 1..MaxThreads
MaxThreads == 1

---------------------------------------------------------------------------
(* Python values.  A float is kept in halves, so that int() truncating it  *)
(* is visible; a string is kept as text.                                  *)

None == [t |-> "none"]
PyInt(n) == [t |-> "int", n |-> n]
PyFloat(h) == [t |-> "float", halves |-> h]
PyStr(s) == [t |-> "str", s |-> s]
PyList == [t |-> "list"]
PyBool(b) == [t |-> "bool", b |-> b]

\* The outcome of a call: a returned value, or a raised exception.
Return(v) == [exc |-> "", val |-> v]
Raise(e, m) == [exc |-> e, msg |-> m]

\* The decimal literals int() reads in this model; DecimalStrings[i + 1]
\* is the text of i.
DecimalStrings == << "0", "1", "2", "3", "4" >>

\* int(x) of Python 2: an int is itself, a float is truncated toward
\* zero, a string is read as a decimal literal or raises ValueError, and a
\* value that is no number and no string raises TypeError.
int(x) ==
    CASE x.t = "int" -> Return(PyInt(x.n))
      [] x.t = "bool" -> Return(PyInt(IF x.b THEN 1 ELSE 0))
      [] x.t = "float" ->
            Return(PyInt(IF x.halves >= 0 THEN x.halves \div 2
                                         ELSE -((-x.halves) \div 2)))
      [] x.t = "str" ->
            IF \E i \in 1..Len(DecimalStrings) : DecimalStrings[i] = x.s
              THEN Return(PyInt((CHOOSE i \in 1..Len(DecimalStrings) :
                                    DecimalStrings[i] = x.s) - 1))
              ELSE Raise("ValueError", << "invalid literal for int()", x >>)
      [] OTHER -> Raise("TypeError", << "int() argument must be a string or a number", x >>)

\* bool(x) of a string: the empty string is false.
Truthy(x) == x.t = "str" /\ x.s # ""

\* x < 0 in the place of x <= 0.
LtZero(x) == x.t = "none" \/ (x.t = "int" /\ x.n < 0)

\* x <= 0 of Python 2, where None orders below every number.
LeZero(x) == x.t = "none" \/ (x.t = "int" /\ x.n <= 0)

---------------------------------------------------------------------------
(* Settings resolution.                                                    *)

HasKw(marker, kw) == kw \in DOMAIN marker.kwargs

\* The keywords _parse_marker accepts.
MarkerKeywords == { "timeout", "method" }

\* TimeoutPlugin._parse_marker: (timeout, method) of a marker, either of
\* which may be None; the values are not interpreted.
_parse_marker(marker) ==
    IF Len(marker.args) = 0 /\ DOMAIN marker.kwargs = {}
      THEN Raise("TypeError", << "Timeout marker must have at least one argument" >>)
    ELSE IF \E kw \in DOMAIN marker.kwargs : kw \notin MarkerKeywords
      THEN Raise("TypeError", << "Invalid keyword argument for timeout marker" >>)
    ELSE IF Len(marker.args) >= 1 /\ HasKw(marker, "timeout")
      THEN Raise("TypeError",
                 << "Multiple values for timeout argument of timeout marker" >>)
    ELSE IF Len(marker.args) >= 2 /\ HasKw(marker, "method")
      THEN Raise("TypeError",
                 << "Multiple values for method argument of timeout marker" >>)
    ELSE IF Len(marker.args) > 2
      THEN Raise("TypeError", << "Too many arguments for timeout marker" >>)
    ELSE Return(<< IF Len(marker.args) >= 1 THEN marker.args[1]
                   ELSE IF HasKw(marker, "timeout") THEN marker.kwargs["timeout"]
                   ELSE None,
                   IF Len(marker.args) >= 2 THEN marker.args[2]
                   ELSE IF HasKw(marker, "method") THEN marker.kwargs["method"]
                   ELSE None >>)

\* TimeoutPlugin._validate_timeout: None stays None, anything else goes
\* through int(); only the ValueError of int() is turned into the plugin's
\* own ValueError, a TypeError of int() propagates as it is.
_validate_timeout(timeout, where) ==
    IF timeout = None THEN Return(None)
    ELSE LET r == int(timeout)
         IN  IF r.exc = "ValueError"
               THEN Raise("ValueError", << "Invalid timeout", timeout, "from", where >>)
               ELSE r

\* The names of the two timeout methods.
Methods == { PyStr("signal"), PyStr("thread") }

\* _validate_method without the check of the name.
_validate_method_unchecked(method, where) == Return(method)

\* TimeoutPlugin._validate_method
_validate_method(method, where) ==
    IF method = None THEN Return(None)
    ELSE IF method \notin Methods
      THEN Raise("ValueError", << "Invalid method", method, "from", where >>)
    ELSE Return(method)

\* DEFAULT_METHOD of the platform
DEFAULT_METHOD(have_sigalrm) ==
    IF have_sigalrm THEN PyStr("signal") ELSE PyStr("thread")

\* ResolveTimeout with the environment variable read before the command
\* line.
ResolveTimeoutEnvFirst(mt, cfg) ==
    IF mt # None THEN Return(mt)
    ELSE LET e == _validate_timeout(cfg.env, "PYTEST_TIMEOUT environment variable")
         IN  IF e.exc # "" THEN e
             ELSE IF e.val # None THEN e
             ELSE IF cfg.timeout # None THEN Return(cfg.timeout)
             ELSE IF Truthy(cfg.ini_timeout)
               THEN _validate_timeout(cfg.ini_timeout, "config file")
             ELSE Return(None)

\* The timeout part of get_params, lines 135-144, from the marker's
\* validated timeout `mt`: command line, then PYTEST_TIMEOUT, then ini file.
ResolveTimeout(mt, cfg) ==
    LET t1 == IF mt = None THEN cfg.timeout ELSE mt
    IN  IF t1 # None THEN Return(t1)
        ELSE LET e == _validate_timeout(cfg.env, "PYTEST_TIMEOUT environment variable")
             IN  IF e.exc # "" THEN e
                 ELSE IF e.val # None THEN e
                 ELSE IF Truthy(cfg.ini_timeout)
                   THEN _validate_timeout(cfg.ini_timeout, "config file")
                 ELSE Return(None)

\* ResolveMethod with the ini file read before the command line.
ResolveMethodIniFirst(mm, cfg, have_sigalrm) ==
    IF mm # None THEN Return(mm)
    ELSE LET i == IF Truthy(cfg.ini_method)
                    THEN _validate_method(cfg.ini_method, "config file")
                    ELSE Return(None)
         IN  IF i.exc # "" THEN i
             ELSE IF i.val # None THEN i
             ELSE IF cfg.timeout_method # None THEN Return(cfg.timeout_method)
             ELSE Return(DEFAULT_METHOD(have_sigalrm))

\* The method part of get_params, lines 145-152, from the marker's
\* validated method `mm`: command line, then ini file, then the default.
ResolveMethod(mm, cfg, have_sigalrm) ==
    LET m1 == IF mm = None THEN cfg.timeout_method ELSE mm
    IN  IF m1 # None THEN Return(m1)
        ELSE LET i == IF Truthy(cfg.ini_method)
                        THEN _validate_method(cfg.ini_method, "config file")
                        ELSE Return(None)
             IN  IF i.exc # "" THEN i
                 ELSE IF i.val # None THEN i
                 ELSE Return(DEFAULT_METHOD(have_sigalrm))

\* get_params with "if not timeout:" for "if timeout is None:" after the
\* marker: a marker's 0 is taken for no deadline and the lower layers are
\* read.
get_params_marker_falsy(it, cfg, have_sigalrm) ==
    LET pm == IF it.has_marker THEN _parse_marker(it.marker)
              ELSE Return(<< None, None >>)
    IN  IF pm.exc # "" THEN pm
        ELSE
        LET vt == _validate_timeout(pm.val[1], "marker")
        IN  IF vt.exc # "" THEN vt
            ELSE
            LET vm == _validate_method(pm.val[2], "marker")
            IN  IF vm.exc # "" THEN vm
                ELSE
                LET rt == ResolveTimeout(IF vt.val = PyInt(0) THEN None ELSE vt.val,
                                         cfg)
                IN  IF rt.exc # "" THEN rt
                    ELSE
                    LET rm == ResolveMethod(vm.val, cfg, have_sigalrm)
                    IN  IF rm.exc # "" THEN rm
                        ELSE Return(<< rt.val, rm.val >>)

\* TimeoutPlugin.get_params: (timeout, method) for an item, or the
\* exception the first failing step raises.
get_params(it, cfg, have_sigalrm) ==
    LET pm == IF it.has_marker THEN _parse_marker(it.marker)
              ELSE Return(<< None, None >>)
    IN  IF pm.exc # "" THEN pm
        ELSE
        LET vt == _validate_timeout(pm.val[1], "marker")
        IN  IF vt.exc # "" THEN vt
            ELSE
            LET vm == _validate_method(pm.val[2], "marker")
            IN  IF vm.exc # "" THEN vm
                ELSE
                LET rt == ResolveTimeout(vt.val, cfg)
                IN  IF rt.exc # "" THEN rt
                    ELSE
                    LET rm == ResolveMethod(vm.val, cfg, have_sigalrm)
                    IN  IF rm.exc # "" THEN rm
                        ELSE Return(<< rt.val, rm.val >>)

---------------------------------------------------------------------------
(* The watchdog: the plugin's fields and the process state they act on.    *)

\* self.cancel is one of these; "None" before setup and after teardown.
CancelNone == "None"

SIG_DFL == [kind |-> "SIG_DFL"]
\* the handler() closure pytest_runtest_setup installs
Handler(idx, timeout) == [kind |-> "timeout", item |-> idx, timeout |-> timeout]

\* a threading.Timer: not made yet, waiting for its interval, running its
\* function (timeout_timer: "fire", then "finally"), or stopped
NoTimer == [state |-> "unborn", finished |-> FALSE, interval |-> 0]
Timer(interval) == [state |-> "waiting", finished |-> FALSE, interval |-> interval]

TimerAlive(tm) == tm.state \in { "waiting", "fire", "finally" }
TimerRunning(tm) == tm.state \in { "fire", "finally" }

\* The fields of the plugin and of the signal module, as one record, so
\* that the plugin's methods are operators from record to record.
Watchdog ==
    [ cancel |-> cancel, current_timer |-> current_timer,
      handler |-> sigalrm_handler, alarm |-> alarm, timers |-> timers ]

\* What a method did: the fields after it, and the exception it raised.
Done(w) == [w |-> w, exc |-> "", msg |-> << >>]
Raised(w, e, m) == [w |-> w, exc |-> e, msg |-> m]

\* Lines 160-168: arm with SIGALRM.  self.cancel is set before the signal
\* module is touched; without SIGALRM the attribute lookup raises.
arm_sigalrm(w, idx, timeout, have_sigalrm) ==
    LET w1 == [w EXCEPT !.cancel = "cancel_sigalrm"]
    IN  IF ~have_sigalrm
          THEN Raised(w1, "AttributeError", << "signal", "SIGALRM" >>)
          ELSE Done([w1 EXCEPT !.handler = Handler(idx, timeout),
                               !.alarm = timeout])

\* arm_timer without timer.start(): the timer is made and never runs.
arm_timer_not_started(w, idx, timeout) ==
    Done([w EXCEPT !.timers[idx] = [Timer(timeout) EXCEPT !.state = "unstarted"],
                   !.current_timer = idx,
                   !.cancel = "cancel_timer"])

\* Lines 169-174: arm with a threading.Timer, started at once.
arm_timer(w, idx, timeout) ==
    Done([w EXCEPT !.timers[idx] = Timer(timeout),
                   !.current_timer = idx,
                   !.cancel = "cancel_timer"])

\* TimeoutPlugin.pytest_runtest_setup, given what get_params returned.
pytest_runtest_setup(w, idx, p, have_sigalrm) ==
    IF p.exc # "" THEN Raised(w, p.exc, p.msg)
    ELSE IF LeZero(p.val[1]) THEN Done(w)
    ELSE IF p.val[2] = PyStr("signal")
      THEN arm_sigalrm(w, idx, p.val[1].n, have_sigalrm)
    ELSE IF p.val[2] = PyStr("thread")
      THEN arm_timer(w, idx, p.val[1].n)
    ELSE Done(w)

\* cancel_sigalrm without signal.alarm(0): only the handler is reset.
cancel_sigalrm_handler_only(w, have_sigalrm) ==
    IF ~have_sigalrm
      THEN Raised(w, "AttributeError", << "signal", "alarm" >>)
      ELSE Done([w EXCEPT !.handler = SIG_DFL])

\* TimeoutPlugin.cancel_sigalrm; without SIGALRM the signal module has no
\* alarm() either.
cancel_sigalrm(w, have_sigalrm) ==
    IF ~have_sigalrm
      THEN Raised(w, "AttributeError", << "signal", "alarm" >>)
      ELSE Done([w EXCEPT !.alarm = 0, !.handler = SIG_DFL])

\* TimeoutPlugin.cancel_timer, first statement: Timer.cancel() sets the
\* timer's finished event.
cancel_timer_cancel(w) ==
    [w EXCEPT !.timers[w.current_timer].finished = TRUE]

\* cancel_timer without the join: it goes on whatever the timer thread does.
JoinReturnsAtOnce(tm) == tm.state # "unborn"

\* Timer.join() returns once the timer thread has stopped.
JoinReturns(tm) == ~TimerAlive(tm)

\* TimeoutPlugin.cancel_timer, after the join: the field is cleared.
cancel_timer_clear(w) == [w EXCEPT !.current_timer = 0]

---------------------------------------------------------------------------
(* The expiry handlers.  What a handler does is kept as a sequence of      *)
(* events: writes to stderr, the suspension of capture, the flush, the     *)
(* failure raised, the process exit.                                       *)

\* TimeoutPlugin.write_title: a title line drawn with sep
write_title(title, sep) == [op |-> "write_title", title |-> title, sep |-> sep]
\* TimeoutPlugin.write
write(text) == [op |-> "write", text |-> text]

\* Thread idents: 0 is the main thread, 1..MaxThreads the threads the test
\* bodies start, -i the Timer made for item i.
ThreadName(ident) ==
    IF ident = 0 THEN << "MainThread" >>
    ELSE IF ident > 0 THEN << "Thread", ident >>
    ELSE << "Timer", -ident >>

\* One iteration of the loop of dump_stacks per ident, in ascending order:
\* the thread's name is looked up in threading.enumerate() (enumerated) and
\* is '<unknown>' when the thread is not found there.
RECURSIVE StackSections(_, _)
StackSections(idents, enumerated) ==
    IF idents = {} THEN << >>
    ELSE LET i == CHOOSE x \in idents : \A y \in idents : x <= y
             name == IF i \in enumerated THEN ThreadName(i) ELSE << "<unknown>" >>
         IN  << write_title(<< "Stack of", name, i >>, "~"),
                write(<< "stack", i >>) >>
             \o StackSections(idents \ {i}, enumerated)

\* dump_stacks without "if thread_ident == current_ident: continue".
dump_stacks_with_current(current_ident, frames, enumerated) ==
    StackSections(frames, enumerated)

\* TimeoutPlugin.dump_stacks: frames is sys._current_frames(), the
\* current thread is left out.
dump_stacks(current_ident, frames, enumerated) ==
    StackSections(frames \ {current_ident}, enumerated)

\* The 'Timeout' banner of both handlers.
Banner == write_title(<< "Timeout" >>, "+")

\* pytest.fail('Timeout >%ss' % timeout)
TimeoutFailure(timeout) ==
    [op |-> "raise", exc |-> "Failed", msg |-> << "Timeout >", timeout, "s" >>]

\* timeout_sigalrm with the banners written whatever the number of threads.
timeout_sigalrm_banners(timeout, threads, frames, enumerated) ==
    << Banner >> \o dump_stacks(0, frames, enumerated)
    \o << Banner, TimeoutFailure(timeout) >>

\* TimeoutPlugin.timeout_sigalrm, run by the SIGALRM handler in the main
\* thread: threads is threading.enumerate() on entry.
timeout_sigalrm(timeout, threads, frames, enumerated) ==
    LET nthreads == Cardinality(threads)
    IN  (IF nthreads > 1 THEN << Banner >> ELSE << >>)
        \o dump_stacks(0, frames, enumerated)
        \o (IF nthreads > 1 THEN << Banner >> ELSE << >>)
        \o << TimeoutFailure(timeout) >>

\* An optional captured section of timeout_timer.
Section(title, text) ==
    IF text # "" THEN << write_title(<< title >>, "~"), write(<< text >>) >>
    ELSE << >>

\* TimeoutPlugin.timeout_timer, the try block and its except clause, run
\* in the timer thread `me`.  capman is whether the capturemanager plugin
\* is there, captured what suspendcapture hands back (stdout, stderr), log
\* caplog whether the _capturelog plugin is there, and log the text of the
\* item's capturelog_handler ("none" when the item has no such attribute).
\* Without a capturemanager "stdout, stderr = None" raises TypeError, which
\* the except clause prints.
timeout_timer(me, capman, captured, caplog, log, frames, enumerated) ==
    IF ~capman
      THEN << [op |-> "print_exc", exc |-> "TypeError"] >>
      ELSE << [op |-> "suspendcapture", stdout |-> captured[1],
                                        stderr |-> captured[2]], Banner >>
           \o (IF caplog /\ log # "none" THEN Section("Captured log", log)
                                         ELSE << >>)
           \o Section("Captured stdout", captured[1])
           \o Section("Captured stderr", captured[2])
           \o dump_stacks(me, frames, enumerated)
           \o << Banner >>

\* The finally clause without os._exit(1): timeout_timer returns.
timeout_timer_finally_returns ==
    << [op |-> "flush", stream |-> "stdout"],
       [op |-> "flush", stream |-> "stderr"] >>

\* The finally clause of timeout_timer.
timeout_timer_finally ==
    << [op |-> "flush", stream |-> "stdout"],
       [op |-> "flush", stream |-> "stderr"],
       [op |-> "os._exit", status |-> 1] >>

---------------------------------------------------------------------------
(* The inputs: markers, configurations, plugins.                           *)

NoKw == << >>
Marker(args, kwargs) == [has_marker |-> TRUE, marker |-> [args |-> args, kwargs |-> kwargs]]
NoMarker == [has_marker |-> FALSE, marker |-> [args |-> << >>, kwargs |-> NoKw]]
Kw(name, value) == [k \in {name} |-> value]

Config(timeout, env, ini_timeout, timeout_method, ini_method) ==
    [ timeout |-> timeout, env |-> env, ini_timeout |-> ini_timeout,
      timeout_method |-> timeout_method, ini_method |-> ini_method ]

\* The items of a run: no marker; deadlines of zero, a fraction and more;
\* both methods, by position and by name; a method alone; and the markers
\* that do not resolve.
RunItems ==
    { NoMarker,
      Marker(<< PyInt(1) >>, NoKw),
      Marker(<< PyInt(0) >>, NoKw),
      Marker(<< PyFloat(1) >>, NoKw),
      Marker(<< PyInt(2), PyStr("thread") >>, NoKw),
      Marker(<< PyInt(1) >>, Kw("method", PyStr("signal"))),
      Marker(<< >>, Kw("method", PyStr("thread"))),
      Marker(<< >>, NoKw),
      Marker(<< PyStr("foo") >>, NoKw),
      Marker(<< PyInt(1) >>, Kw("timeout", PyInt(2))),
      Marker(<< PyInt(1), PyStr("thread"), PyInt(3) >>, NoKw),
      Marker(<< PyInt(1) >>, Kw("func_only", PyBool(TRUE))) }

\* The configurations of a run: nothing set; a command-line timeout; the
\* environment variable with the ini-file method; the ini-file timeout
\* with the command-line method.
RunConfigs ==
    { Config(None, None, PyStr(""), None, PyStr("")),
      Config(PyInt(1), None, PyStr(""), None, PyStr("")),
      Config(None, PyStr("2"), PyStr(""), None, PyStr("thread")),
      Config(None, None, PyStr("1"), PyStr("signal"), PyStr("")) }

\* What a timer finds when it fires: whether the capturemanager and the
\* _capturelog plugins are registered, what capture hands back, and the
\* text of the item's capturelog handler ("none": no such attribute).
CapturedTexts == { "", "text" }
LogTexts == { "none", "", "text" }

---------------------------------------------------------------------------
(* The run: pytest's protocol for each item (setup, call, teardown), the   *)
(* SIGALRM delivery and the timer threads.                                 *)

NotResolved == [exc |-> "unset"]
NoOutcome == [kind |-> "none", msg |-> << >>]
Outcome(kind, msg) == [kind |-> kind, msg |-> msg]
NoReport == [setup |-> NoOutcome, call |-> NoOutcome, teardown |-> NoOutcome]

\* The process: running, ended by os._exit() or at the end of the session
\* with a status, or killed by a signal.
ProcessRuns == [state |-> "running"]
Exited(status) == [state |-> "exited", status |-> status]
Killed(sig) == [state |-> "killed", signal |-> sig]

Running == process = ProcessRuns

\* The session deadline when none is configured: it stays Idle.
NoSession ==
    [ state |-> "Idle", deadline |-> 0, elapsed |-> 0, checked |-> 0,
      stop |-> FALSE, banners |-> << >>, results |-> << >>, crossed |-> "" ]

\* the phase of the protocol the main thread is in
Phase(at) ==
    IF at \in { "start", "setup_rest" } THEN "setup"
    ELSE IF at = "call" THEN "call"
    ELSE "teardown"

\* threading.enumerate(): the main thread, the other live threads, and
\* the timer threads that have not stopped
Enumerate ==
    {0} \cup others \cup { -i : i \in { j \in 1..MaxItems : TimerAlive(timers[j]) } }

Install(w) ==
    /\ cancel' = w.cancel
    /\ current_timer' = w.current_timer
    /\ sigalrm_handler' = w.handler
    /\ alarm' = w.alarm
    /\ timers' = w.timers

RunInit ==
    /\ HAVE_SIGALRM \in BOOLEAN
    /\ config \in RunConfigs
    /\ index = 1
    /\ item \in RunItems
    /\ pc = "start"
    /\ params = NotResolved
    /\ cancel = CancelNone
    /\ current_timer = 0
    /\ sigalrm_handler \in { SIG_DFL, [kind |-> "user"] }
    /\ alarm = 0
    /\ timers = [i \in 1..MaxItems |-> NoTimer]
    /\ others = {}
    /\ trace = << >>
    /\ report = NoReport
    /\ process = ProcessRuns
    /\ session = NoSession
    /\ debugger = FALSE

\* Another pytest_runtest_setup implementation raises Skipped before the
\* plugin's own is called (lines 178-181): the plugin's setup never runs.
SkipBeforeSetup ==
    /\ Running /\ pc = "start"
    /\ report' = [report EXCEPT !.setup = Outcome("skipped", << >>)]
    /\ pc' = "teardown"
    /\ UNCHANGED << session, debugger, HAVE_SIGALRM, config, index, item, params, cancel,
                    current_timer, sigalrm_handler, alarm, timers, others, trace,
                    process >>

\* The plugin's pytest_runtest_setup.
RuntestSetup ==
    /\ Running /\ pc = "start"
    /\ LET p == get_params(item, config, HAVE_SIGALRM)
           r == pytest_runtest_setup(Watchdog, index, p, HAVE_SIGALRM)
       IN  /\ params' = p
           /\ Install(r.w)
           /\ IF r.exc # ""
                THEN /\ report' = [report EXCEPT !.setup = Outcome(r.exc, r.msg)]
                     /\ pc' = "teardown"
                ELSE /\ report' = report
                     /\ pc' = "setup_rest"
    /\ UNCHANGED << session, debugger, HAVE_SIGALRM, config, index, item, others, trace,
                    process >>

\* The rest of the setup phase (fixtures) passes, or raises.
SetupRest ==
    /\ Running /\ pc = "setup_rest"
    /\ \E ok \in BOOLEAN :
         IF ok THEN /\ report' = [report EXCEPT !.setup = Outcome("passed", << >>)]
                    /\ pc' = "call"
               ELSE /\ report' = [report EXCEPT !.setup = Outcome("error", << >>)]
                    /\ pc' = "teardown"
    /\ UNCHANGED << session, debugger, HAVE_SIGALRM, config, index, item, params, cancel,
                    current_timer, sigalrm_handler, alarm, timers, others, trace,
                    process >>

\* The test body starts or ends a thread of its own.
BodyThreads ==
    /\ Running /\ pc = "call"
    /\ \E t \in 1..MaxThreads :
         others' = IF t \in others THEN others \ {t} ELSE others \cup {t}
    /\ UNCHANGED << session, debugger, HAVE_SIGALRM, config, index, item, pc, params,
                    cancel, current_timer, sigalrm_handler, alarm, timers, trace,
                    report, process >>

\* The test body finishes on its own: it passes or fails.
BodyFinish ==
    /\ Running /\ pc = "call"
    /\ \E kind \in { "passed", "failed" } :
         report' = [report EXCEPT !.call = Outcome(kind, << >>)]
    /\ pc' = "teardown"
    /\ UNCHANGED << session, debugger, HAVE_SIGALRM, config, index, item, params, cancel,
                    current_timer, sigalrm_handler, alarm, timers, others, trace,
                    process >>

\* SigalrmExpire with a handler that returns at once, raising and writing
\* nothing, when a debugger's trace hook is installed on the main thread.
SigalrmExpireGuarded ==
    /\ Running /\ alarm > 0
    /\ pc \in { "setup_rest", "call", "cancelling" }
    /\ alarm' = 0
    /\ IF sigalrm_handler.kind = "timeout" /\ ~debugger
         THEN \E gone \in SUBSET others :
                LET ev == timeout_sigalrm(sigalrm_handler.timeout, Enumerate,
                                          Enumerate, Enumerate \ gone)
                    failure == ev[Len(ev)]
                IN  /\ trace' = trace \o ev
                    /\ others' = others \ gone
                    /\ report' = [report EXCEPT
                                    ![Phase(pc)] = Outcome(failure.exc, failure.msg)]
                    /\ pc' = IF pc = "cancelling" THEN "finish" ELSE "teardown"
                    /\ process' = process
         ELSE /\ process' = IF sigalrm_handler = SIG_DFL THEN Killed("SIGALRM")
                                                         ELSE process
              /\ UNCHANGED << trace, others, report, pc >>
    /\ UNCHANGED << session, debugger, HAVE_SIGALRM, config, index, item, params, cancel,
                    current_timer, sigalrm_handler, timers >>

\* SIGALRM is delivered while the main thread is between the plugin's
\* setup and the end of its cancel: the installed handler runs in the main
\* thread.  The plugin's handler calls timeout_sigalrm, whose failure
\* unwinds the phase the main thread is in; SIG_DFL ends the process.
\* Threads may end while the handler runs (gone).
SigalrmExpire ==
    /\ Running /\ alarm > 0
    /\ pc \in { "setup_rest", "call", "cancelling" }
    /\ alarm' = 0
    /\ IF sigalrm_handler.kind = "timeout"
         THEN \E gone \in SUBSET others :
                LET ev == timeout_sigalrm(sigalrm_handler.timeout, Enumerate,
                                          Enumerate, Enumerate \ gone)
                    failure == ev[Len(ev)]
                IN  /\ trace' = trace \o ev
                    /\ others' = others \ gone
                    /\ report' = [report EXCEPT
                                    ![Phase(pc)] = Outcome(failure.exc, failure.msg)]
                    /\ pc' = IF pc = "cancelling" THEN "finish" ELSE "teardown"
                    /\ process' = process
         ELSE /\ process' = IF sigalrm_handler = SIG_DFL THEN Killed("SIGALRM")
                                                         ELSE process
              /\ UNCHANGED << trace, others, report, pc >>
    /\ UNCHANGED << session, debugger, HAVE_SIGALRM, config, index, item, params, cancel,
                    current_timer, sigalrm_handler, timers >>

\* The plugin's pytest_runtest_teardown, "if self.cancel:".
TeardownEnter ==
    /\ Running /\ pc = "teardown"
    /\ IF cancel = CancelNone
         THEN /\ pc' = "finish"
              /\ report' = [report EXCEPT !.teardown = Outcome("passed", << >>)]
         ELSE /\ pc' = "cancelling"
              /\ report' = report
    /\ UNCHANGED << session, debugger, HAVE_SIGALRM, config, index, item, params, cancel,
                    current_timer, sigalrm_handler, alarm, timers, others, trace,
                    process >>

\* self.cancel() is cancel_sigalrm, then "self.cancel = None"; an exception
\* of cancel_sigalrm leaves self.cancel as it is.
CancelSigalrm ==
    /\ Running /\ pc = "cancelling" /\ cancel = "cancel_sigalrm"
    /\ LET r == cancel_sigalrm(Watchdog, HAVE_SIGALRM)
       IN  IF r.exc # ""
             THEN /\ Install(r.w)
                  /\ report' = [report EXCEPT !.teardown = Outcome(r.exc, r.msg)]
             ELSE /\ Install([r.w EXCEPT !.cancel = CancelNone])
                  /\ report' = [report EXCEPT !.teardown = Outcome("passed", << >>)]
    /\ pc' = "finish"
    /\ UNCHANGED << session, debugger, HAVE_SIGALRM, config, index, item, params, others,
                    trace, process >>

\* self.cancel() is cancel_timer: self._current_timer.cancel() ...
CancelTimer ==
    /\ Running /\ pc = "cancelling" /\ cancel = "cancel_timer"
    /\ IF current_timer = 0
         THEN /\ report' = [report EXCEPT
                              !.teardown = Outcome("AttributeError", << "cancel" >>)]
              /\ pc' = "finish"
              /\ UNCHANGED << cancel, current_timer, sigalrm_handler, alarm, timers >>
         ELSE /\ Install(cancel_timer_cancel(Watchdog))
              /\ pc' = "joining"
              /\ report' = report
    /\ UNCHANGED << session, debugger, HAVE_SIGALRM, config, index, item, params, others,
                    trace, process >>

\* ... self._current_timer.join(), which blocks until the timer thread has
\* stopped, then "self._current_timer = None" and "self.cancel = None".
JoinTimer ==
    /\ Running /\ pc = "joining"
    /\ JoinReturns(timers[current_timer])
    /\ Install([cancel_timer_clear(Watchdog) EXCEPT !.cancel = CancelNone])
    /\ report' = [report EXCEPT !.teardown = Outcome("passed", << >>)]
    /\ pc' = "finish"
    /\ UNCHANGED << session, debugger, HAVE_SIGALRM, config, index, item, params, others,
                    trace, process >>

\* pytest goes on to the next item.
NextItem ==
    /\ Running /\ pc = "finish" /\ index < MaxItems
    /\ index' = index + 1
    /\ item' \in RunItems
    /\ params' = NotResolved
    /\ trace' = << >>
    /\ report' = NoReport
    /\ pc' = "start"
    /\ UNCHANGED << session, debugger, HAVE_SIGALRM, config, cancel, current_timer,
                    sigalrm_handler, alarm, timers, others, process >>

\* The last item is done: the session ends.
SessionFinish ==
    /\ Running /\ pc = "finish" /\ index = MaxItems
    /\ pc' = "done"
    /\ UNCHANGED << session, debugger, HAVE_SIGALRM, config, index, item, params, cancel,
                    current_timer, sigalrm_handler, alarm, timers, others, trace,
                    report, process >>

\* The interpreter exits once no timer thread (not a daemon) is left.
ProcessExit ==
    /\ Running /\ pc = "done"
    /\ \A i \in 1..MaxItems : ~TimerAlive(timers[i])
    /\ process' = Exited(0)
    /\ UNCHANGED << session, debugger, HAVE_SIGALRM, config, index, item, pc, params,
                    cancel, current_timer, sigalrm_handler, alarm, timers, others,
                    trace, report >>

\* Timer.run(): the wait for the interval is over and finished is not set,
\* so the timer goes on to call its function.
TimerExpire(i) ==
    /\ Running /\ timers[i].state = "waiting" /\ ~timers[i].finished
    /\ timers' = [timers EXCEPT ![i].state = "fire"]
    /\ UNCHANGED << session, debugger, HAVE_SIGALRM, config, index, item, pc, params,
                    cancel, current_timer, sigalrm_handler, alarm, others, trace,
                    report, process >>

\* Timer.run(): finished was set by cancel(), the thread stops.
TimerStop(i) ==
    /\ Running /\ timers[i].state = "waiting" /\ timers[i].finished
    /\ timers' = [timers EXCEPT ![i].state = "done"]
    /\ UNCHANGED << session, debugger, HAVE_SIGALRM, config, index, item, pc, params,
                    cancel, current_timer, sigalrm_handler, alarm, others, trace,
                    report, process >>

\* The timer thread runs timeout_timer: its try block and except clause.
TimerTimeout(i) ==
    /\ Running /\ timers[i].state = "fire"
    /\ \E capman \in BOOLEAN, caplog \in BOOLEAN,
          so \in CapturedTexts, se \in CapturedTexts, log \in LogTexts,
          gone \in SUBSET others :
         /\ trace' = trace \o timeout_timer(-i, capman, << so, se >>, caplog, log,
                                            Enumerate, Enumerate \ gone)
         /\ others' = others \ gone
    /\ timers' = [timers EXCEPT ![i].state = "finally"]
    /\ UNCHANGED << session, debugger, HAVE_SIGALRM, config, index, item, pc, params,
                    cancel, current_timer, sigalrm_handler, alarm, report,
                    process >>

\* The finally clause of timeout_timer: flush, then os._exit(1), which
\* ends the process at once; a function that returned would end the thread.
TimerExit(i) ==
    /\ Running /\ timers[i].state = "finally"
    /\ LET ev == timeout_timer_finally
       IN  /\ trace' = trace \o ev
           /\ IF ev # << >> /\ ev[Len(ev)].op = "os._exit"
                THEN /\ process' = Exited(ev[Len(ev)].status)
                     /\ timers' = timers
                ELSE /\ process' = process
                     /\ timers' = [timers EXCEPT ![i].state = "done"]
    /\ UNCHANGED << session, debugger, HAVE_SIGALRM, config, index, item, pc, params,
                    cancel, current_timer, sigalrm_handler, alarm, others,
                    report >>

TimerStep(i) == TimerExpire(i) \/ TimerStop(i) \/ TimerTimeout(i) \/ TimerExit(i)

RunNext ==
    \/ SkipBeforeSetup
    \/ RuntestSetup
    \/ SetupRest
    \/ BodyThreads
    \/ BodyFinish
    \/ SigalrmExpire
    \/ TeardownEnter
    \/ CancelSigalrm
    \/ CancelTimer
    \/ JoinTimer
    \/ NextItem
    \/ SessionFinish
    \/ ProcessExit
    \/ \E i \in 1..MaxItems : TimerStep(i)

Spec == RunInit /\ [][RunNext]_vars

\* The alarm goes off and the timer threads run: the kernel delivers a
\* pending SIGALRM and the timer threads are scheduled, whatever the main
\* thread does.  Nothing makes the main thread itself go on.
FairSpec ==
    /\ Spec
    /\ WF_vars(SigalrmExpire)
    /\ \A i \in 1..MaxItems : WF_vars(TimerStep(i))

---------------------------------------------------------------------------
(* Settings resolution on its own: get_params applied to every             *)
(* combination of the layers.                                              *)

MarkerTimeouts ==
    { None, PyInt(1), PyInt(0), PyInt(-1), PyFloat(1), PyFloat(3),
      PyStr("foo"), PyList }
MarkerMethods == { None, PyStr("signal"), PyStr("thread"), PyStr("bogus"), PyInt(2) }

\* Markers that give timeout and method by position or by name, and the
\* markers whose shape is wrong.
ResolveItems ==
    { NoMarker }
    \cup { Marker(<< t >>, NoKw) : t \in MarkerTimeouts }
    \cup { Marker(<< t, m >>, NoKw) : t \in MarkerTimeouts, m \in MarkerMethods \ {None} }
    \cup { Marker(<< t >>, Kw("method", m)) :
             t \in { PyInt(1), PyFloat(3) }, m \in MarkerMethods }
    \cup { Marker(<< >>, Kw("timeout", t)) : t \in { None, PyInt(1), PyInt(0), PyStr("foo") } }
    \cup { Marker(<< >>, Kw("method", m)) : m \in MarkerMethods }
    \cup { Marker(<< >>, [k \in { "timeout", "method" } |->
                            IF k = "timeout" THEN PyInt(1) ELSE PyStr("thread")]),
           Marker(<< >>, NoKw),
           Marker(<< PyInt(1) >>, Kw("timeout", PyInt(2))),
           Marker(<< PyInt(1), PyStr("thread") >>, Kw("method", PyStr("signal"))),
           Marker(<< PyInt(1), PyStr("thread"), PyInt(3) >>, NoKw),
           Marker(<< >>, Kw("func_only", PyBool(TRUE))),
           Marker(<< PyInt(1) >>, Kw("func_only", PyBool(TRUE))),
           Marker(<< >>, Kw("bogus", PyInt(1))) }

ResolveConfigs ==
    { Config(t, e, it, m, im) :
        t \in { None, PyInt(0), PyInt(3) },
        e \in { None, PyStr("2"), PyStr("0"), PyStr("foo") },
        it \in { PyStr(""), PyStr("4"), PyStr("0"), PyStr("bar") },
        m \in { None, PyStr("signal"), PyStr("thread") },
        im \in { PyStr(""), PyStr("signal"), PyStr("thread"), PyStr("bogus") } }

ResolveInit ==
    /\ HAVE_SIGALRM \in BOOLEAN
    /\ config \in ResolveConfigs
    /\ item \in ResolveItems
    /\ pc = "resolve"
    /\ params = NotResolved
    /\ index = 1
    /\ cancel = CancelNone
    /\ current_timer = 0
    /\ sigalrm_handler = SIG_DFL
    /\ alarm = 0
    /\ timers = [i \in 1..MaxItems |-> NoTimer]
    /\ others = {}
    /\ trace = << >>
    /\ report = NoReport
    /\ process = ProcessRuns
    /\ session = NoSession
    /\ debugger = FALSE

\* get_params is called for the item.
Resolve ==
    /\ pc = "resolve"
    /\ params' = get_params(item, config, HAVE_SIGALRM)
    /\ pc' = "resolved"
    /\ UNCHANGED << session, debugger, HAVE_SIGALRM, config, index, item, cancel, current_timer,
                    sigalrm_handler, alarm, timers, others, trace, report,
                    process >>

\* pytest_runtest_setup goes on with what get_params returned: it raises
\* the exception of get_params, or arms the timeout, or returns.
ResolveSetup ==
    /\ pc = "resolved"
    /\ LET r == pytest_runtest_setup(Watchdog, index, params, HAVE_SIGALRM)
       IN  /\ Install(r.w)
           /\ IF r.exc # ""
                THEN /\ report' = [report EXCEPT !.setup = Outcome(r.exc, r.msg)]
                     /\ pc' = "teardown"
                ELSE /\ report' = report
                     /\ pc' = "setup_rest"
    /\ UNCHANGED << session, debugger, HAVE_SIGALRM, config, index, item, params, others, trace,
                    process >>

ResolveNext == Resolve \/ ResolveSetup

ResolveSpec == ResolveInit /\ [][ResolveNext]_vars

---------------------------------------------------------------------------
(* Properties of the settings resolution.                                  *)

\* The values a marker gives for timeout and for method, by position or
\* by name; None when the marker gives none, or the item has no marker.
MarkerTimeout(it) ==
    IF ~it.has_marker THEN None
    ELSE IF Len(it.marker.args) >= 1 THEN it.marker.args[1]
    ELSE IF HasKw(it.marker, "timeout") THEN it.marker.kwargs["timeout"]
    ELSE None

MarkerMethod(it) ==
    IF ~it.has_marker THEN None
    ELSE IF Len(it.marker.args) >= 2 THEN it.marker.args[2]
    ELSE IF HasKw(it.marker, "method") THEN it.marker.kwargs["method"]
    ELSE None

\* An ini-file key that is not set reads as the empty string.
IniValue(v) == IF v = PyStr("") THEN None ELSE v

\* The first layer of a sequence of layers, highest precedence first, that
\* supplies a value; None when no layer supplies one.
FirstSupplied(layers) ==
    IF \A i \in 1..Len(layers) : layers[i] = None THEN None
    ELSE layers[CHOOSE i \in 1..Len(layers) :
                    /\ layers[i] # None
                    /\ \A j \in 1..(i - 1) : layers[j] = None]

\* The deadline a supplied value stands for, in whole seconds.
WholeSeconds(v) ==
    CASE v.t = "int" -> PyInt(v.n)
      [] v.t = "str" -> PyInt((CHOOSE i \in 1..Len(DecimalStrings) :
                                   DecimalStrings[i] = v.s) - 1)
      [] v.t = "float" -> PyInt(IF v.halves >= 0 THEN v.halves \div 2
                                                  ELSE -((-v.halves) \div 2))
      [] OTHER -> None

DeadlineLayers(it, cfg) ==
    << MarkerTimeout(it), cfg.timeout, cfg.env, IniValue(cfg.ini_timeout) >>

MethodLayers(it, cfg) ==
    << MarkerMethod(it), cfg.timeout_method, IniValue(cfg.ini_method) >>

Resolved == pc = "resolved" /\ params.exc = ""

\* C1: whenever get_params returns, the deadline it returns is that of the
\* highest layer that supplies one, in the order marker, command line,
\* PYTEST_TIMEOUT, ini file; it is None when no layer supplies one.  (The
\* value is returned in whole seconds.)
C1_DeadlinePrecedence ==
    Resolved =>
        params.val[1] = WholeSeconds(FirstSupplied(DeadlineLayers(item, config)))

\* C1, its case: the four layers hold four different deadlines, and the
\* marker's is returned.
C1_Witness ==
    /\ Resolved
    /\ \A i \in 1..4 : DeadlineLayers(item, config)[i] # None
    /\ \A i, j \in 1..4 :
         i # j => WholeSeconds(DeadlineLayers(item, config)[i])
                    # WholeSeconds(DeadlineLayers(item, config)[j])
    /\ params.val[1] = WholeSeconds(MarkerTimeout(item))

\* C2: whenever get_params returns, the method it returns is that of the
\* highest layer that sets one, in the order marker, command line, ini
\* file, and otherwise signal with SIGALRM and thread without; which layers
\* supply a deadline plays no part in it.  A marker without a method
\* leaves the method to the lower layers, and a marker without a timeout
\* leaves the deadline to the lower layers.
C2_MethodPrecedence ==
    Resolved =>
        /\ params.val[2] =
             IF FirstSupplied(MethodLayers(item, config)) # None
               THEN FirstSupplied(MethodLayers(item, config))
               ELSE IF HAVE_SIGALRM THEN PyStr("signal") ELSE PyStr("thread")
        /\ (item.has_marker /\ MarkerMethod(item) = None) =>
             params.val[2] \in
               { FirstSupplied(<< config.timeout_method, IniValue(config.ini_method) >>),
                 IF HAVE_SIGALRM THEN PyStr("signal") ELSE PyStr("thread") }
        /\ (item.has_marker /\ MarkerTimeout(item) = None) =>
             params.val[1] =
               WholeSeconds(FirstSupplied(<< config.timeout, config.env,
                                             IniValue(config.ini_timeout) >>))

\* C2, its case: a marker that sets only the deadline, the method coming
\* from the ini file although the platform default is signal.
C2_Witness ==
    /\ Resolved
    /\ HAVE_SIGALRM
    /\ MarkerTimeout(item) = PyInt(1) /\ MarkerMethod(item) = None
    /\ config.timeout_method = None /\ config.ini_method = PyStr("thread")
    /\ params.val = << PyInt(1), PyStr("thread") >>

---------------------------------------------------------------------------
(* Properties of the run.                                                  *)

\* A deadline that asks for enforcement: a number above zero.
Positive(v) == v # None /\ v.n > 0

\* The current item's settings resolved to a deadline above zero.
Enforced == params.exc = "" /\ Positive(params.val[1])

\* The main thread is in the part of the item the deadline watches and
\* that can hang: the fixtures' setup or the test body.
Hanging == Running /\ pc \in { "setup_rest", "call" }

\* The outcome of a phase that the signal expiry failed.
TimeoutOutcome(deadline) == Outcome("Failed", << "Timeout >", deadline, "s" >>)

\* The process was ended with a non-zero status.
ExitedNonZero == process.state = "exited" /\ process.status # 0

\* C3: whenever the resolved deadline of the current item is None or <= 0,
\* pytest_runtest_setup has armed nothing: no alarm is pending, the SIGALRM
\* handler is not one made for this item, no timer thread was made for it,
\* and no expiry happens during it (no handler has done anything, no phase
\* has failed on a timeout, the process was not ended by a handler).
C3_NothingArmed ==
    (params.exc = "" /\ ~Positive(params.val[1])) =>
        /\ alarm = 0
        /\ ~(sigalrm_handler.kind = "timeout" /\ sigalrm_handler.item = index)
        /\ timers[index] = NoTimer
        /\ current_timer # index
        /\ trace = << >>
        /\ \A ph \in { "setup", "call", "teardown" } : report[ph].kind # "Failed"
        /\ process \in { ProcessRuns, Exited(0) }

\* C3, its case: the second item's marker sets the deadline 0 over a
\* command-line timeout of 1, and the item ran to the end of its teardown.
C3_Witness ==
    /\ index = 2 /\ pc = "finish"
    /\ params.exc = "" /\ params.val[1] = PyInt(0)
    /\ config.timeout = PyInt(1)
    /\ report.call.kind = "passed"

C5_DisarmedAfterTeardown ==
    pc = "finish" =>
        /\ alarm = 0
        /\ \A i \in 1..MaxItems : ~TimerAlive(timers[i])
        /\ params = NotResolved => report.teardown = Outcome("passed", << >>)

C7_ThreadExpiryOrder ==
    ExitedNonZero =>
        LET n == Len(trace)
            Titles(t) == { k \in 1..n : trace[k] = write_title(<< t >>, "~") }
            Stacks == { k \in 1..n : /\ trace[k].op = "write_title"
                                     /\ trace[k].title[1] = "Stack of" }
            Banners == { k \in 1..n : trace[k] = Banner }
            Sections == Titles("Captured stdout") \cup Titles("Captured stderr")
        IN  /\ n >= 8
            /\ trace[1].op = "suspendcapture"
            /\ Banners = { 2, n - 3 }
            /\ (trace[1].stdout # "") <=> (Titles("Captured stdout") # {})
            /\ (trace[1].stderr # "") <=> (Titles("Captured stderr") # {})
            /\ \A k \in Titles("Captured stdout") :
                 trace[k + 1] = write(<< trace[1].stdout >>)
            /\ \A k \in Titles("Captured stderr") :
                 trace[k + 1] = write(<< trace[1].stderr >>)
            /\ \A a \in Titles("Captured stdout"), b \in Titles("Captured stderr") :
                 a < b
            /\ Stacks # {}
            /\ \A s \in Stacks : 2 < s /\ s < n - 3
            /\ \A a \in Sections : 2 < a /\ \A s \in Stacks : a < s
            /\ trace[n - 2] = [op |-> "flush", stream |-> "stdout"]
            /\ trace[n - 1] = [op |-> "flush", stream |-> "stderr"]
            /\ trace[n].op = "os._exit" /\ trace[n].status # 0
            /\ \A k \in 1..(n - 1) : trace[k].op # "os._exit"

\* C8: once a timer thread has begun timeout_timer, the process ends with
\* a non-zero status; until then the handler stays begun, the main thread
\* does not get past the cancel of that item, and no other item starts.
C8_Irrevocable ==
    /\ \A i \in 1..MaxItems : TimerRunning(timers[i]) ~> ExitedNonZero
    /\ [][ \A i \in 1..MaxItems :
             TimerRunning(timers[i]) =>
                /\ TimerRunning(timers'[i])
                /\ index' = index
                /\ pc' \notin { "start", "finish", "done" } ]_vars

\* C8, its case: without a capturemanager the handler's try block raised,
\* the main thread was already waiting in the join of the cancel, and the
\* process ended with status 1.
C8_Witness ==
    /\ ExitedNonZero
    /\ pc = "joining"
    /\ trace # << >> /\ trace[1].op = "print_exc"

\* C9: a timer thread is running its handler only during the item it was
\* made for and before that item's cancel has returned; and once the
\* cancel of an item has returned (the teardown is over, or a later item
\* is on), the timer made for that item is no longer alive.
C9_JoinedBeforeReturn ==
    \A i \in 1..MaxItems :
        /\ TimerRunning(timers[i]) =>
             /\ index = i
             /\ pc \in { "setup_rest", "call", "teardown", "cancelling", "joining" }
        /\ (index > i \/ (index = i /\ pc \in { "finish", "done" })) =>
             ~TimerAlive(timers[i])

\* C9, its case: the first item's timer was cancelled and joined, and the
\* second item is in its body.
C9_Witness ==
    /\ index = 2 /\ pc = "call"
    /\ timers[1].state = "done" /\ timers[1].finished

\* The fields of a timeout marker.
RecognizedFields == { "timeout", "method", "func_only" }

\* A marker of a wrong shape: no arguments at all, a keyword that is no
\* recognized field, or more than two positional arguments.
ShapeError(marker) ==
    \/ Len(marker.args) = 0 /\ DOMAIN marker.kwargs = {}
    \/ \E kw \in DOMAIN marker.kwargs : kw \notin RecognizedFields
    \/ Len(marker.args) > 2

\* C10: once the plugin's setup has run for an item with a timeout marker,
\* it has raised TypeError exactly if the marker is of a wrong shape, and
\* then nothing is armed and the body does not run.
C10_ShapeErrors ==
    (item.has_marker /\ params # NotResolved) =>
        /\ (params.exc = "TypeError") <=> ShapeError(item.marker)
        /\ params.exc = "TypeError" =>
             /\ report.call = NoOutcome
             /\ alarm = 0 /\ timers[index] = NoTimer /\ trace = << >>

---------------------------------------------------------------------------
(* Properties of the values of the settings.                               *)

\* The plugin's setup is over for the item, with or without an exception.
AfterSetup == pc \in { "setup_rest", "teardown" }

\* Nothing is armed for the current item.
NothingArmed ==
    /\ alarm = 0
    /\ ~(sigalrm_handler.kind = "timeout" /\ sigalrm_handler.item = index)
    /\ timers[index] = NoTimer
    /\ current_timer # index

\* A value that is a number, or the text of one.
Numeric(v) ==
    \/ v.t \in { "int", "float", "bool" }
    \/ v.t = "str" /\ \E i \in 1..Len(DecimalStrings) : DecimalStrings[i] = v.s

\* The marker of the item has a right shape and, if it names a method, a
\* valid one: nothing but its deadline can make the resolution fail.
MarkerWellFormed(it) ==
    ~it.has_marker
    \/ /\ _parse_marker(it.marker).exc = ""
       /\ MarkerMethod(it) \in Methods \cup { None }

\* The layer the deadline is read from, and how the plugin names it.
DeadlineLayerNames ==
    << "marker", "command line", "PYTEST_TIMEOUT environment variable", "config file" >>

DeadlineLayer(it, cfg) ==
    CHOOSE i \in 1..4 : /\ DeadlineLayers(it, cfg)[i] # None
                        /\ \A j \in 1..(i - 1) : DeadlineLayers(it, cfg)[j] = None

\* C11: whenever the deadline that resolution reads (from the marker, the
\* environment variable or the ini file) is not numeric, whatever its type,
\* the plugin's setup fails with a ValueError that names the layer and the
\* value, and nothing is armed.
C11_NonNumericDeadline ==
    (/\ AfterSetup
     /\ MarkerWellFormed(item)
     /\ FirstSupplied(DeadlineLayers(item, config)) # None
     /\ ~Numeric(FirstSupplied(DeadlineLayers(item, config)))) =>
        /\ params.exc = "ValueError"
        /\ params.msg = << "Invalid timeout",
                           FirstSupplied(DeadlineLayers(item, config)), "from",
                           DeadlineLayerNames[DeadlineLayer(item, config)] >>
        /\ report.setup = Outcome("ValueError", params.msg)
        /\ report.call = NoOutcome
        /\ NothingArmed


\* The layer the method is read from, and how the plugin names it.
MethodLayerNames == << "marker", "command line", "config file" >>

MethodLayer(it, cfg) ==
    CHOOSE i \in 1..3 : /\ MethodLayers(it, cfg)[i] # None
                        /\ \A j \in 1..(i - 1) : MethodLayers(it, cfg)[j] = None

\* The method that resolution reads is none of 'signal' and 'thread'.
InvalidMethod(it, cfg) ==
    /\ FirstSupplied(MethodLayers(it, cfg)) # None
    /\ FirstSupplied(MethodLayers(it, cfg)) \notin { PyStr("signal"), PyStr("thread") }

\* No deadline makes the resolution fail: the marker's deadline, and the
\* deadline that resolution reads, are numeric or not given.
DeadlinesNumeric(it, cfg) ==
    /\ MarkerTimeout(it) = None \/ Numeric(MarkerTimeout(it))
    /\ \/ FirstSupplied(DeadlineLayers(it, cfg)) = None
       \/ Numeric(FirstSupplied(DeadlineLayers(it, cfg)))

C13_FractionalDeadline ==
    (/\ Running /\ pc \in { "setup_rest", "call" }
     /\ item.has_marker /\ _parse_marker(item.marker).exc = ""
     /\ MarkerTimeout(item).t = "float"
     /\ MarkerTimeout(item).halves > 0
     /\ MarkerTimeout(item).halves % 2 = 1) =>
        /\ params.exc = ""
        /\ params.val[1] = MarkerTimeout(item)
        /\ \/ 2 * alarm = MarkerTimeout(item).halves
           \/ /\ TimerAlive(timers[index])
              /\ 2 * timers[index].interval = MarkerTimeout(item).halves

---------------------------------------------------------------------------
(* The session deadline.  The plugin of src/pytest_timeout.py has none;    *)
(* this part follows the specification's SessionDeadline (section 4.6) and *)
(* SessionSettings (section 3), run together with the plugin's handling of *)
(* each item.                                                              *)

\* the clock counts up to MaxClock ticks
MaxClock == 2

\* SessionSettings: the deadline from the command line, then from the
\* configuration file; 0 when neither sets one.
session_deadline(cmdline, ini) ==
    IF cmdline # None THEN cmdline.n
    ELSE IF Truthy(ini) THEN int(ini).val.n
    ELSE 0

\* The literal banner of the session expiry.
SessionBanner(deadline) == << "!! session-timeout:", deadline, "s exceeded !!!" >>

\* start(): Idle -> Running, recording the start instant; a no-op when no
\* deadline was configured.
session_start(s) ==
    IF s.state = "Idle" /\ s.deadline > 0
      THEN [s EXCEPT !.state = "Running", !.elapsed = 0]
      ELSE s

\* check() that writes the banner and lets the scheduler go on.
session_check_goes_on(s) ==
    IF s.state = "Running" /\ s.elapsed > s.deadline
      THEN [s EXCEPT !.state = "Expired",
                     !.banners = Append(@, SessionBanner(s.deadline))]
      ELSE s

\* check(): Running -> Expired once the elapsed time exceeds the deadline;
\* on that transition the banner is written and the scheduler is told to
\* stop launching units of work.
session_check(s) ==
    IF s.state = "Running" /\ s.elapsed > s.deadline
      THEN [s EXCEPT !.state = "Expired",
                     !.banners = Append(@, SessionBanner(s.deadline)),
                     !.stop = TRUE]
      ELSE s

SessionItems ==
    { NoMarker,
      Marker(<< PyInt(1) >>, NoKw),
      Marker(<< PyInt(2), PyStr("thread") >>, NoKw) }

SessionInit ==
    /\ HAVE_SIGALRM = TRUE
    /\ config = Config(None, None, PyStr(""), None, PyStr(""))
    /\ index = 1
    /\ item \in SessionItems
    /\ pc = "session_start"
    /\ params = NotResolved
    /\ cancel = CancelNone
    /\ current_timer = 0
    /\ sigalrm_handler = SIG_DFL
    /\ alarm = 0
    /\ timers = [i \in 1..MaxItems |-> NoTimer]
    /\ others = {}
    /\ trace = << >>
    /\ report = NoReport
    /\ process = ProcessRuns
    /\ \E cmdline \in { None, PyInt(1) }, ini \in { PyStr(""), PyStr("1") } :
         session = [NoSession EXCEPT !.deadline = session_deadline(cmdline, ini)]
    /\ debugger = FALSE

\* The run begins: start() is called before the first unit of work.
SessionDeadlineStart ==
    /\ Running /\ pc = "session_start"
    /\ session' = session_start(session)
    /\ pc' = "start"
    /\ UNCHANGED << debugger, HAVE_SIGALRM, config, index, item, params, cancel,
                    current_timer, sigalrm_handler, alarm, timers, others, trace,
                    report, process >>

\* Clock tick that aborts the unit in flight when the deadline is crossed.
ClockTickPreemptive ==
    /\ Running /\ session.state = "Running" /\ session.elapsed < MaxClock
    /\ pc # "done"
    /\ session' = [session EXCEPT
                     !.elapsed = @ + 1,
                     !.crossed = IF session.elapsed + 1 > session.deadline /\ @ = ""
                                   THEN pc ELSE @]
    /\ IF session.elapsed + 1 > session.deadline /\ pc \in { "setup_rest", "call" }
         THEN /\ report' = [report EXCEPT ![Phase(pc)] = Outcome("Failed", << "session" >>)]
              /\ pc' = "teardown"
         ELSE UNCHANGED << report, pc >>
    /\ UNCHANGED << debugger, HAVE_SIGALRM, config, index, item, params, cancel,
                    current_timer, sigalrm_handler, alarm, timers, others, trace,
                    process >>

\* Time passes, wherever the scheduling thread is: the session clock is
\* monotonic, and nothing else happens when it crosses the deadline (where
\* the scheduling thread was then is kept in `crossed`).
ClockTick ==
    /\ Running /\ session.state = "Running" /\ session.elapsed < MaxClock
    /\ pc # "done"
    /\ session' = [session EXCEPT
                     !.elapsed = @ + 1,
                     !.crossed = IF session.elapsed + 1 > session.deadline /\ @ = ""
                                   THEN pc ELSE @]
    /\ UNCHANGED << debugger, HAVE_SIGALRM, config, index, item, pc, params,
                    cancel, current_timer, sigalrm_handler, alarm, timers, others,
                    trace, report, process >>

\* check() is called after every unit of work completes; the unit's
\* outcome joins the results.
SessionDeadlineCheck ==
    /\ Running /\ pc = "finish" /\ session.checked < index
    /\ session' = [session_check(session) EXCEPT
                     !.checked = index,
                     !.results = Append(@, report)]
    /\ UNCHANGED << debugger, HAVE_SIGALRM, config, index, item, pc, params,
                    cancel, current_timer, sigalrm_handler, alarm, timers, others,
                    trace, report, process >>

\* The scheduler launches the next unit of work unless it was told to stop.
ScheduleNext ==
    /\ session.checked = index /\ ~session.stop
    /\ NextItem

\* The scheduler was told to stop: the remaining units are not launched
\* and the run ends normally.
ScheduleStop ==
    /\ Running /\ pc = "finish" /\ session.checked = index /\ session.stop
    /\ pc' = "done"
    /\ UNCHANGED << session, debugger, HAVE_SIGALRM, config, index, item, params,
                    cancel, current_timer, sigalrm_handler, alarm, timers, others,
                    trace, report, process >>

\* The last unit of work is done.
ScheduleEnd ==
    /\ session.checked = index /\ ~session.stop
    /\ SessionFinish

\* The steps of one unit of work and of the timer threads.
UnitStep ==
    \/ SkipBeforeSetup
    \/ RuntestSetup
    \/ SetupRest
    \/ BodyThreads
    \/ BodyFinish
    \/ SigalrmExpire
    \/ TeardownEnter
    \/ CancelSigalrm
    \/ CancelTimer
    \/ JoinTimer
    \/ ProcessExit
    \/ \E i \in 1..MaxItems : TimerStep(i)

SessionNext ==
    \/ SessionDeadlineStart
    \/ ClockTick
    \/ SessionDeadlineCheck
    \/ ScheduleNext
    \/ ScheduleStop
    \/ ScheduleEnd
    \/ UnitStep

SessionSpec == SessionInit /\ [][SessionNext]_vars

---------------------------------------------------------------------------
(* Properties of the session deadline.                                     *)

\* C14: the session deadline moves only from Idle to Running and from
\* Running to Expired, and stays Expired; once it is Expired (a check after
\* a completed unit found the deadline exceeded) no other unit of work is
\* launched: the item stays the same and is never set up or run again.
C14_SessionStates ==
    [][ /\ session.state = "Idle" => session'.state \in { "Idle", "Running" }
        /\ session.state = "Running" => session'.state \in { "Running", "Expired" }
        /\ session.state = "Expired" =>
             /\ session'.state = "Expired"
             /\ index' = index
             /\ pc' \in { "finish", "done" } ]_vars

\* C14, its case: the deadline expired after the first unit of work, and
\* the run ended without the second.
C14_Witness ==
    /\ session.state = "Expired" /\ session.stop
    /\ index = 1 /\ index < MaxItems
    /\ process = Exited(0)
    /\ session.banners = << SessionBanner(session.deadline) >>

\* C15: no step of the session deadline (a clock tick that crosses the
\* deadline, the check that finds it exceeded) touches the unit of work in
\* flight or the plugin's timeout: the unit goes on where it was, with the
\* outcome it had.  When the deadline has expired the unit that was being
\* run is complete, teardown included, and its outcome is in the results as
\* it was reported; results once recorded never change.
C15_UnitInFlightCompletes ==
    /\ [][ (session.state = "Running" /\ session' # session) =>
             UNCHANGED << index, item, pc, params, cancel, current_timer,
                          sigalrm_handler, alarm, timers, others, trace,
                          report, process >> ]_vars
    /\ [][ /\ Len(session'.results) >= Len(session.results)
           /\ \A k \in 1..Len(session.results) :
                session'.results[k] = session.results[k] ]_vars
    /\ [](session.state = "Expired" =>
             /\ pc \in { "finish", "done" }
             /\ report.teardown.kind # "none"
             /\ Len(session.results) = index
             /\ session.results[index] = report)

\* C15, its case: the deadline was crossed while the first unit was in its
\* body; the unit passed all the same, and the run then stopped.
C15_Witness ==
    /\ session.state = "Expired"
    /\ session.crossed = "call"
    /\ index = 1 /\ pc = "done"
    /\ session.results[1].call.kind = "passed"
    /\ session.results[1].teardown.kind = "passed"
    /\ trace = << >>

---------------------------------------------------------------------------
(* The run with a debugger: the body of a test may enter an interactive    *)
(* debugger (pdb.set_trace(), which installs a trace hook on the main      *)
(* thread with sys.settrace) and leave it again.  The plugin reads neither *)
(* sys.gettrace() nor any setting about debuggers.                         *)

BodyDebugger ==
    /\ Running /\ pc = "call"
    /\ debugger' = ~debugger
    /\ UNCHANGED << session, HAVE_SIGALRM, config, index, item, pc, params, cancel,
                    current_timer, sigalrm_handler, alarm, timers, others, trace,
                    report, process >>

DebugNext ==
    \/ RunNext
    \/ BodyDebugger

DebugSpec == RunInit /\ [][DebugNext]_vars

\* A step in which the plugin's alarm goes off: the alarm was pending with
\* the plugin's handler installed, the handler stays installed (it is not
\* the cancel), and the alarm or the output changes.
SignalExpires ==
    /\ alarm > 0
    /\ sigalrm_handler.kind = "timeout"
    /\ sigalrm_handler' = sigalrm_handler
    /\ (alarm' # alarm \/ trace' # trace)

\* C16: when the plugin's alarm goes off while a debugger owns the main
\* thread, the handler raises nothing and writes nothing: the phase, the
\* report and the output stay as they are, and the alarm is armed again.
C16_DebuggerSuppression ==
    [][ (SignalExpires /\ debugger) =>
          /\ trace' = trace
          /\ report' = report
          /\ pc' = pc
          /\ alarm' > 0 ]_vars

---------------------------------------------------------------------------
(* The run with overrides registered: a conftest.py may implement          *)
(* pytest_timeout_set_timer and pytest_timeout_cancel_timer, each          *)
(* returning True.  The plugin declares no such hooks and its setup and    *)
(* teardown call none (lines 155-184).                                     *)

\* What the registered implementations return; FALSE also when none is
\* registered.
Overrides(set_timer, cancel_timer) ==
    [ try_set_timer |-> set_timer, try_cancel_timer |-> cancel_timer ]

HookConfigs ==
    { cfg @@ Overrides(s, c) : cfg \in RunConfigs, s \in BOOLEAN, c \in BOOLEAN }

HookInit ==
    /\ HAVE_SIGALRM \in BOOLEAN
    /\ config \in HookConfigs
    /\ index = 1
    /\ item \in RunItems
    /\ pc = "start"
    /\ params = NotResolved
    /\ cancel = CancelNone
    /\ current_timer = 0
    /\ sigalrm_handler \in { SIG_DFL, [kind |-> "user"] }
    /\ alarm = 0
    /\ timers = [i \in 1..MaxItems |-> NoTimer]
    /\ others = {}
    /\ trace = << >>
    /\ report = NoReport
    /\ process = ProcessRuns
    /\ session = NoSession
    /\ debugger = FALSE

HookSpec == HookInit /\ [][RunNext]_vars

\* C18: with a set-timer override that returns true nothing is ever armed
\* by the plugin (no alarm, no handler of its own, no timer thread); with a
\* cancel-timer override that returns true the plugin's own cancel is never
\* run; without a set-timer override returning true, an item with a
\* positive deadline is armed while its fixtures are set up.
C18_Overrides ==
    /\ config.try_set_timer =>
         /\ alarm = 0
         /\ sigalrm_handler.kind # "timeout"
         /\ \A i \in 1..MaxItems : timers[i] = NoTimer
         /\ cancel = CancelNone
    /\ config.try_cancel_timer => pc # "cancelling"
    /\ (~config.try_set_timer /\ pc = "setup_rest" /\ Enforced) => ~NothingArmed

---------------------------------------------------------------------------
(* One item with its fixture finalizers.  The plugin's                     *)
(* pytest_runtest_teardown is a plain hook implementation of a plugin      *)
(* registered after pytest's own (line 59), so it is called before the     *)
(* runner's teardown, which runs the finalizers: they run once self.cancel *)
(* has been called.                                                        *)

\* The runner's teardown starts: the fixture finalizers run.
FixtureFinalizers ==
    /\ Running /\ pc = "finish"
    /\ pc' = "finalizers"
    /\ UNCHANGED << session, debugger, HAVE_SIGALRM, config, index, item, params, cancel,
                    current_timer, sigalrm_handler, alarm, timers, others, trace,
                    report, process >>

\* The finalizers return, or raise; the item is over.
FinalizersDone ==
    /\ Running /\ pc = "finalizers"
    /\ \E ok \in BOOLEAN :
         report' = IF ok THEN report
                         ELSE [report EXCEPT !.teardown = Outcome("error", << >>)]
    /\ pc' = "done"
    /\ UNCHANGED << session, debugger, HAVE_SIGALRM, config, index, item, params, cancel,
                    current_timer, sigalrm_handler, alarm, timers, others, trace,
                    process >>

ScopeNext ==
    \/ UnitStep
    \/ FixtureFinalizers
    \/ FinalizersDone

ScopeSpec == RunInit /\ [][ScopeNext]_vars

\* The scope an item asks for: CoreOnly when its marker says func_only=True
\* (the only place the runs here can say it), WholeUnit otherwise.
CoreOnly == item.has_marker /\ HasKw(item.marker, "func_only")
              /\ item.marker.kwargs["func_only"] = PyBool(TRUE)

\* The deadline of the current item is armed: its alarm is pending or its
\* timer thread is alive.
Armed == alarm > 0 \/ TimerAlive(timers[index])

\* C19: an item with a positive deadline and scope WholeUnit is armed all
\* the time the main thread is in its fixtures' setup, in its body or in its
\* fixture finalizers; an item with scope CoreOnly has nothing armed during
\* its fixtures' setup and finalizers, and is armed in its body.
C19_Scope ==
    /\ (~CoreOnly /\ Enforced /\ Running
          /\ pc \in { "setup_rest", "call", "finalizers" }) => Armed
    /\ CoreOnly =>
         /\ pc \in { "setup_rest", "finalizers" } => NothingArmed
         /\ (pc = "call" /\ Running) => Armed

---------------------------------------------------------------------------
(* Resolution for an item marked on itself and on the class around it.     *)
(* get_params reads one object, item.keywords['timeout'] (lines 131-132);  *)
(* what pytest puts there for two markers is pytest's matter: the item's   *)
(* own marker alone, or one object holding the positional arguments of     *)
(* both in a row and the keyword arguments of both, the ones added last    *)
(* winning.                                                                *)

KeywordHosts == { "nearest", "own_first", "enclosing_first" }

GroupMarkers ==
    { NoMarker,
      Marker(<< >>, Kw("timeout", PyInt(2))),
      Marker(<< >>, Kw("timeout", PyInt(3))),
      Marker(<< PyInt(1) >>, NoKw),
      Marker(<< >>, Kw("method", PyStr("thread"))),
      Marker(<< PyInt(2), PyStr("thread") >>, NoKw) }

\* item.keywords['timeout'] of an item with the marker `own` in a class
\* with the marker `enclosing`.
keywords_timeout(own, enclosing, host) ==
    IF ~own.has_marker THEN enclosing
    ELSE IF ~enclosing.has_marker THEN own
    ELSE CASE host = "nearest" -> own
           [] host = "own_first" ->
                Marker(own.marker.args \o enclosing.marker.args,
                       enclosing.marker.kwargs @@ own.marker.kwargs)
           [] host = "enclosing_first" ->
                Marker(enclosing.marker.args \o own.marker.args,
                       own.marker.kwargs @@ enclosing.marker.kwargs)

\* The item as get_params sees it, with the two markers it came from.
GroupedItem(own, enclosing, host) ==
    keywords_timeout(own, enclosing, host)
      @@ [ own |-> own, enclosing |-> enclosing ]

GroupedItems ==
    { GroupedItem(own, enclosing, host) :
        own \in GroupMarkers, enclosing \in GroupMarkers, host \in KeywordHosts }

MergeInit ==
    /\ HAVE_SIGALRM \in BOOLEAN
    /\ config \in RunConfigs
    /\ item \in GroupedItems
    /\ pc = "resolve"
    /\ params = NotResolved
    /\ index = 1
    /\ cancel = CancelNone
    /\ current_timer = 0
    /\ sigalrm_handler = SIG_DFL
    /\ alarm = 0
    /\ timers = [i \in 1..MaxItems |-> NoTimer]
    /\ others = {}
    /\ trace = << >>
    /\ report = NoReport
    /\ process = ProcessRuns
    /\ session = NoSession
    /\ debugger = FALSE

MergeSpec == MergeInit /\ [][ResolveNext]_vars

\* The marker that sets each field to the value of the nearest of the two
\* markers that sets it.
MergedField(own, enclosing, Field(_)) ==
    IF Field(own) # None THEN Field(own) ELSE Field(enclosing)

MergedMarker(own, enclosing) ==
    LET t == MergedField(own, enclosing, MarkerTimeout)
        m == MergedField(own, enclosing, MarkerMethod)
    IN  IF t = None /\ m = None THEN NoMarker
        ELSE IF m = None THEN Marker(<< t >>, NoKw)
        ELSE IF t = None THEN Marker(<< >>, Kw("method", m))
        ELSE Marker(<< t, m >>, NoKw)

\* C20: what get_params returns for an item marked on itself and on its
\* class is what it returns for the one marker that merges the two field by
\* field, the nearest marker that sets a field giving its value; the lower
\* layers are read only for a field neither marker sets.
C20_MarkerMerge ==
    pc # "resolve" =>
        params = get_params(MergedMarker(item.own, item.enclosing), config,
                            HAVE_SIGALRM)

---------------------------------------------------------------------------
(* One item whose disarm step is called a second time: once the item's     *)
(* teardown is over, pytest_runtest_teardown is called again.              *)

\* TimeoutPlugin.pytest_runtest_teardown as one step, for a call that finds
\* no live timer thread to wait for: "if self.cancel:", self.cancel(), then
\* "self.cancel = None", which an exception of self.cancel() skips.
pytest_runtest_teardown(w, have_sigalrm) ==
    IF w.cancel = CancelNone THEN Done(w)
    ELSE IF w.cancel = "cancel_sigalrm"
      THEN LET r == cancel_sigalrm(w, have_sigalrm)
           IN  IF r.exc # "" THEN r
               ELSE Done([r.w EXCEPT !.cancel = CancelNone])
    ELSE IF w.current_timer = 0
      THEN Raised(w, "AttributeError", << "cancel" >>)
    ELSE Done([cancel_timer_clear(cancel_timer_cancel(w)) EXCEPT !.cancel = CancelNone])

\* The second call: it returns ("again") or raises ("again_raised").
TeardownAgain ==
    /\ Running /\ pc = "finish"
    /\ cancel = "cancel_timer" => JoinReturns(timers[current_timer])
    /\ LET r == pytest_runtest_teardown(Watchdog, HAVE_SIGALRM)
       IN  /\ Install(r.w)
           /\ IF r.exc # ""
                THEN /\ report' = [report EXCEPT !.teardown = Outcome(r.exc, r.msg)]
                     /\ pc' = "again_raised"
                ELSE /\ report' = report
                     /\ pc' = "again"
    /\ UNCHANGED << session, debugger, HAVE_SIGALRM, config, index, item, params, others,
                    trace, process >>

\* The item is over.
AgainDone ==
    /\ Running /\ pc \in { "again", "again_raised" }
    /\ pc' = "done"
    /\ UNCHANGED << session, debugger, HAVE_SIGALRM, config, index, item, params, cancel,
                    current_timer, sigalrm_handler, alarm, timers, others, trace,
                    report, process >>

DisarmNext ==
    \/ UnitStep
    \/ TeardownAgain
    \/ AgainDone

DisarmSpec == RunInit /\ [][DisarmNext]_vars

\* The expiry handler of the current item has run and raised.
HandlerRan == \E k \in 1..Len(trace) : trace[k].op = "raise"

\* A step that ends the first disarm of the item, the alarm not going off
\* in it.
DisarmEnds ==
    /\ pc \in { "teardown", "cancelling", "joining" }
    /\ pc' = "finish"
    /\ ~(alarm > 0 /\ trace' # trace)

\* C21: the disarm called for an item whose expiry handler has already run
\* returns without raising and writes nothing; the disarm called a second
\* time for the same item returns without raising, writes nothing and
\* leaves the report as it was; this for an item armed with either method.
C21_DisarmIdempotent ==
    /\ [][ (DisarmEnds /\ HandlerRan) =>
             /\ report'.teardown = Outcome("passed", << >>)
             /\ trace' = trace ]_vars
    /\ [][ (pc = "finish" /\ pc' # pc) =>
             /\ pc' = "again"
             /\ report' = report
             /\ trace' = trace ]_vars

---------------------------------------------------------------------------
(* Properties of the disarm.                                               *)

\* A handler the program installed for SIGALRM before pytest ran.
UserHandler == [kind |-> "user"]

\* The current item was armed with the signal method and its disarm is
\* over: the teardown returned and self.cancel is cleared.
SignalDisarmed ==
    /\ pc = "finish" /\ cancel = CancelNone
    /\ Enforced /\ params.val[2] = PyStr("signal")

\* A run that starts with a handler of the program installed for SIGALRM.
HandlerInit == RunInit /\ sigalrm_handler = UserHandler

HandlerSpec == HandlerInit /\ [][RunNext]_vars

\* C22: nothing but the plugin touches the SIGALRM handler during the run,
\* so the handler installed before every arm is the one the run started
\* with, here a handler of the program and not the default disposition:
\* after every signal disarm that handler is installed again, and no alarm
\* is pending.
C22_PriorHandlerRestored ==
    SignalDisarmed => (sigalrm_handler = UserHandler /\ alarm = 0)

---------------------------------------------------------------------------
(* Properties of the expiry output.                                        *)

\* Where the handler's output ends: the first failure raised, or the exit.
EndOfExpiry(op) ==
    CHOOSE k \in 1..Len(trace) :
        /\ trace[k].op = op
        /\ \A j \in 1..(k - 1) : trace[j].op # op

\* The stack section of thread t is written before position e.
StackWrittenBefore(t, e) ==
    \E k \in 1..(e - 1) :
        /\ trace[k].op = "write_title"
        /\ trace[k].title[1] = "Stack of"
        /\ trace[k].title[3] = t
        /\ k + 1 < e
        /\ trace[k + 1] = write(<< "stack", t >>)

\* C23: when a timer's handler has ended the process, the stack of the main
\* thread, which it interrupted, was written before the exit, whether or
\* not a capturemanager is registered; when the signal handler has raised
\* its failure, the stack of every other thread still alive was written
\* before the failure.
C23_StacksBeforeEnd ==
    /\ ExitedNonZero => StackWrittenBefore(0, EndOfExpiry("os._exit"))
    /\ HandlerRan =>
         \A t \in others : StackWrittenBefore(t, EndOfExpiry("raise"))

---------------------------------------------------------------------------
(* Properties of the run across items.                                     *)

\* The timers that are armed: the pending alarm and the timer threads that
\* are alive.
ArmedCount ==
    Cardinality({ i \in 1..MaxItems : TimerAlive(timers[i]) })
      + (IF alarm > 0 THEN 1 ELSE 0)

\* C24: at most one timer is armed in every state of the run, and it is the
\* one of the current item: a pending alarm has the handler made for the
\* current item, a live timer thread is the one made for it; when the
\* plugin's setup of an item is about to run, nothing is armed.
C24_AtMostOneTimer ==
    /\ ArmedCount <= 1
    /\ alarm > 0 => sigalrm_handler = Handler(index, alarm)
    /\ \A i \in 1..MaxItems : TimerAlive(timers[i]) => i = index
    /\ pc = "start" => ArmedCount = 0

\* C24, its case: the first item had a timer thread, now stopped, and the
\* second item is in its body with its own timer waiting or with its own
\* alarm pending.
C24_Witness ==
    /\ index = 2 /\ pc = "call" /\ ArmedCount = 1
    /\ \/ timers[1].state = "done" /\ timers[2].state = "waiting"
       \/ timers[1].state = "done" /\ alarm > 0

\* The watchdog as it is before the first item: self.cancel and
\* self._current_timer are None, no alarm is pending, the SIGALRM handler is
\* not one of the plugin's, no timer thread is alive.
CleanWatchdog ==
    /\ cancel = CancelNone /\ current_timer = 0 /\ alarm = 0
    /\ sigalrm_handler.kind # "timeout"
    /\ \A i \in 1..MaxItems : ~TimerAlive(timers[i])

\* The current item failed on its own: its settings did not resolve (a
\* shape or a value error), or the signal expiry failed one of its phases.
LocalFailure ==
    \/ params.exc \in { "TypeError", "ValueError" }
    \/ \E ph \in { "setup", "call", "teardown" } : report[ph].kind = "Failed"

\* C25: when the first item, which the watchdog was clean before, is over
\* and has failed on its own, the watchdog is clean again: nothing of the
\* item is left armed or installed, so the next item is resolved, armed and
\* disarmed from the state it would have met had the first one passed.
C25_FailureIsLocal ==
    (index = 1 /\ pc = "finish" /\ LocalFailure) => CleanWatchdog

---------------------------------------------------------------------------
(* Properties of the platform without SIGALRM.                             *)

\* C26: in a run without SIGALRM the signal method is never armed and never
\* cancelled: self.cancel is never cancel_sigalrm, no alarm is pending and
\* no handler is installed; every method that resolves is the thread
\* method, whichever layer asked for signal; an item with a positive
\* deadline has its timer thread alive during its setup and its body; and
\* neither the plugin's setup nor its teardown fails with AttributeError.
C26_NoAlarmPrimitive ==
    ~HAVE_SIGALRM =>
        /\ cancel # "cancel_sigalrm"
        /\ alarm = 0 /\ sigalrm_handler.kind # "timeout"
        /\ params.exc = "" => params.val[2] = PyStr("thread")
        /\ (Enforced /\ Running /\ pc \in { "setup_rest", "call" }) =>
             TimerAlive(timers[index])
        /\ report.setup.kind # "AttributeError"
        /\ report.teardown.kind # "AttributeError"

---------------------------------------------------------------------------
(* Properties of the stack dump.                                           *)

\* What a dump wrote, given the events `new` of the handler that ran it:
\* the positions of the section titled for thread t.
StackTitles(new, t) ==
    { k \in 1..Len(new) : /\ new[k].op = "write_title"
                          /\ new[k].title[1] = "Stack of"
                          /\ new[k].title[3] = t }

\* The dump run by thread cur over the threads in frames, of which those in
\* enumerated are still known when their section is rendered: one section
\* for every thread but cur, titled with the thread's name or "<unknown>",
\* followed by its stack; no section for cur; and nothing raised by it.
DumpIsRight(new, cur, frames, enumerated) ==
    /\ \A t \in frames \ {cur} :
         /\ Cardinality(StackTitles(new, t)) = 1
         /\ \A k \in StackTitles(new, t) :
              /\ new[k].title[2] = (IF t \in enumerated THEN ThreadName(t)
                                                        ELSE << "<unknown>" >>)
              /\ k < Len(new) /\ new[k + 1] = write(<< "stack", t >>)
    /\ StackTitles(new, cur) = {}
    /\ \A k \in 1..Len(new) :
         /\ new[k].op = "write_title" /\ new[k].title[1] = "Stack of"
              => new[k].title[3] \in frames
         /\ new[k].op # "print_exc"
         /\ new[k].op = "raise" => new[k] = TimeoutFailure(sigalrm_handler.timeout)

\* C27: in every step in which a handler runs dump_stacks (the signal
\* handler in the main thread, or the handler of a timer in the timer's
\* thread once capture is suspended), with the threads alive when the
\* frames are taken and some of them gone when the sections are rendered,
\* the dump is right.
C27_DumpStacks ==
    [][ LET new == SubSeq(trace', Len(trace) + 1, Len(trace'))
            known == Enumerate \ (others \ others')
        IN  /\ (alarm > 0 /\ alarm' = 0 /\ trace' # trace) =>
                  DumpIsRight(new, 0, Enumerate, known)
            /\ \A i \in 1..MaxItems :
                 (/\ timers[i].state = "fire" /\ timers'[i].state = "finally"
                  /\ new[1].op = "suspendcapture") =>
                     DumpIsRight(new, -i, Enumerate, known) ]_vars

\* C27, its case: a timer's handler has dumped the main thread and a thread
\* of the test body that was gone when its section was rendered, titled
\* "<unknown>", and no section for the timer's own thread.
C27_Witness ==
    /\ timers[index].state = "finally"
    /\ trace # << >> /\ trace[1].op = "suspendcapture"
    /\ \E t \in 1..MaxThreads :
         \E k \in StackTitles(trace, t) : trace[k].title[2] = << "<unknown>" >>
    /\ StackTitles(trace, 0) # {}
    /\ StackTitles(trace, -index) = {}

---------------------------------------------------------------------------
(* Properties of a marker that switches the timeout off.                   *)

\* A deadline of zero or less.
NonPositive(v) ==
    \/ v.t = "int" /\ v.n <= 0
    \/ v.t = "float" /\ v.halves <= 0

\* C28: when the marker of an item gives a deadline of 0 or less, whatever
\* the command line, PYTEST_TIMEOUT and the ini file give for the deadline
\* (a positive value, or one that is no number), the resolution succeeds
\* with the marker's deadline, the plugin's setup returns, and nothing is
\* armed; only an invalid method that resolution reads makes it fail.
C28_MarkerDisables ==
    (/\ AfterSetup
     /\ item.has_marker /\ MarkerWellFormed(item)
     /\ MarkerTimeout(item) # None /\ NonPositive(MarkerTimeout(item))
     /\ ~InvalidMethod(item, config)) =>
        /\ params.exc = ""
        /\ params.val[1] = WholeSeconds(MarkerTimeout(item))
        /\ ~Positive(params.val[1])
        /\ pc = "setup_rest" /\ report.setup = NoOutcome
        /\ NothingArmed

\* C28, its case: the marker says 0 while the command line, the
\* environment variable and the ini file each give a positive deadline.
C28_Witness ==
    /\ AfterSetup
    /\ MarkerTimeout(item) = PyInt(0)
    /\ config.timeout = PyInt(3) /\ config.env = PyStr("2")
    /\ config.ini_timeout = PyStr("4")
    /\ params.exc = "" /\ params.val[1] = PyInt(0)
    /\ NothingArmed

=============================================================================
